---- MODULE Spec2Model ----
(***************************************************************************)
(* A model of the Discord coach bot: the shared conversation state         *)
(* (state.py), the message handlers of CoachBot (main.py), the two         *)
(* scheduled check-in jobs (scheduler.py) and the Craft publisher and      *)
(* formatter (craft.py).                                                   *)
(*                                                                         *)
(* The bot runs on one asyncio event loop.  Every on_message call and      *)
(* every scheduler job is its own task; a task runs without interruption   *)
(* from one await of network I/O to the next, and tasks interleave at      *)
(* those awaits.  An action of this model is one such uninterrupted run.   *)
(*                                                                         *)
(* Text is a sequence of one-character strings, so that strip, lower,      *)
(* split and the substring tests are computed as Python computes them.     *)
(***************************************************************************)
EXTENDS Naturals, Sequences, FiniteSets, TLC

\* ------------------------------------------------------------------ bounds

\* Number of on_message tasks that can be in flight at once.
MaxHandlers == 2

\* Last value of the wall clock (datetime.now()); the clock starts at 1.
MaxClock == 2

\* Number of fragments concatenated into an input of the formatter.
MaxFrags == 3

\* ------------------------------------------------------------------- text

UpperAlpha ==
  <<"A","B","C","D","E","F","G","H","I","J","K","L","M",
    "N","O","P","Q","R","S","T","U","V","W","X","Y","Z">>

LowerAlpha ==
  <<"a","b","c","d","e","f","g","h","i","j","k","l","m",
    "n","o","p","q","r","s","t","u","v","w","x","y","z">>

\* str.lower() on one character.
LowerChar(c) ==
  IF \E j \in 1..Len(UpperAlpha) : UpperAlpha[j] = c
  THEN LowerAlpha[CHOOSE j \in 1..Len(UpperAlpha) : UpperAlpha[j] = c]
  ELSE c

\* str.lower()
Lower(s) == [j \in 1..Len(s) |-> LowerChar(s[j])]

\* The characters str.strip() and str.split() treat as whitespace.
IsSpace(c) == c \in {" ", "\t", "\n", "\r"}

\* str.strip(): drop the leading and the trailing whitespace.
Strip(s) ==
  LET keep == {j \in 1..Len(s) : ~IsSpace(s[j])}
  IN  IF keep = {} THEN <<>>
      ELSE LET lo == CHOOSE j \in keep : \A k \in keep : j <= k
               hi == CHOOSE j \in keep : \A k \in keep : j >= k
           IN  SubSeq(s, lo, hi)

\* str.startswith(p)
StartsWith(s, p) == Len(s) >= Len(p) /\ SubSeq(s, 1, Len(p)) = p

\* "sub in s": sub occurs in s as a contiguous substring.
Contains(s, sub) ==
  \E j \in 1..(Len(s) + 1) :
     j + Len(sub) - 1 <= Len(s) /\ SubSeq(s, j, j + Len(sub) - 1) = sub

\* s.split()[0] for a text that starts with a non-blank character: the
\* longest prefix without whitespace.
FirstWord(s) ==
  LET blanks == {j \in 1..Len(s) : IsSpace(s[j])}
  IN  IF blanks = {} THEN s
      ELSE SubSeq(s, 1, (CHOOSE j \in blanks : \A k \in blanks : j <= k) - 1)

\* The literals the code compares text with.
KwYes == <<"y","e","s">>
KwNo == <<"n","o">>
KwPartial == <<"p","a","r","t","i","a","l">>
CommandPrefix == <<"/">>
CmdMorning == <<"/","m","o","r","n","i","n","g">>
CmdEvening == <<"/","e","v","e","n","i","n","g">>
CmdStatus == <<"/","s","t","a","t","u","s">>
CmdHelp == <<"/","h","e","l","p">>
Greetings ==
  { <<"h","i">>, <<"h","e","l","l","o">>, <<"h","e","y">>, <<"y","o">>,
    <<"s","u","p">> }
ThanksWords ==
  { <<"t","h","a","n","k","s">>, <<"t","h","a","n","k"," ","y","o","u">>,
    <<"t","h","x">> }

\* ------------------------------------------------------- craft.py: format

Kinds == {"morning", "evening"}

\* CompletionStatus with the "no" test of its first branch left out.
CompletionStatusYesFirst(content) ==
  LET content_lower == Lower(content)
  IN  IF Contains(content_lower, KwYes) THEN "Yes"
      ELSE IF Contains(content_lower, KwPartial) THEN "Partial"
      ELSE IF Contains(content_lower, KwNo) THEN "No"
      ELSE ""

\* The completion keyword scan of a morning reply; "" is no status.
CompletionStatus(content) ==
  LET content_lower == Lower(content)
  IN  IF Contains(content_lower, KwYes) /\ ~Contains(content_lower, KwNo)
      THEN "Yes"
      ELSE IF Contains(content_lower, KwPartial) THEN "Partial"
      ELSE IF Contains(content_lower, KwNo) THEN "No"
      ELSE ""

\* WorkoutStatus with the "partial" branch of the morning scan added.
WorkoutStatusWithPartial(content) ==
  LET content_lower == Lower(content)
  IN  IF Contains(content_lower, KwYes) /\ ~Contains(content_lower, KwNo)
      THEN "Yes"
      ELSE IF Contains(content_lower, KwPartial) THEN "Partial"
      ELSE IF Contains(content_lower, KwNo) THEN "No"
      ELSE ""

\* The workout keyword scan of an evening reply; "" is no status.
WorkoutStatus(content) ==
  LET content_lower == Lower(content)
  IN  IF Contains(content_lower, KwYes) /\ ~Contains(content_lower, KwNo)
      THEN "Yes"
      ELSE IF Contains(content_lower, KwNo) THEN "No"
      ELSE ""

\* FormatCheckInContent giving every kind but "morning" the evening form.
FormatCheckInContentEveningDefault(content, check_in_type, timestamp) ==
  IF check_in_type = "morning"
  THEN <<"## Morning Check-in (", timestamp, ")\n">>
       \o (IF CompletionStatus(content) # ""
           THEN <<"**Routine completion:** ", CompletionStatus(content), "\n">>
           ELSE <<>>)
       \o content
  ELSE <<"## Exercise Check-in (", timestamp, ")\n">>
       \o (IF WorkoutStatus(content) # ""
           THEN <<"**Workout:** ", WorkoutStatus(content), "\n">>
           ELSE <<>>)
       \o content

\* format_check_in_content: the markdown as a sequence whose first elements
\* are the literal pieces the code writes (heading, time stamp, status line)
\* and whose tail is the reply, character by character.
FormatCheckInContent(content, check_in_type, timestamp) ==
  IF check_in_type = "morning"
  THEN <<"## Morning Check-in (", timestamp, ")\n">>
       \o (IF CompletionStatus(content) # ""
           THEN <<"**Routine completion:** ", CompletionStatus(content), "\n">>
           ELSE <<>>)
       \o content
  ELSE IF check_in_type = "evening"
  THEN <<"## Exercise Check-in (", timestamp, ")\n">>
       \o (IF WorkoutStatus(content) # ""
           THEN <<"**Workout:** ", WorkoutStatus(content), "\n">>
           ELSE <<>>)
       \o content
  ELSE content

\* ------------------------------------------------------ craft.py: publish

\* What the POST to the note store can end in: a response with a status
\* code, or one of the exceptions the code tells apart.
HttpOutcomes ==
  [how : {"response"}, code : {200, 201, 204, 404, 500}]
  \cup [how : {"timeout", "request_error", "exception"}, code : {0}]

\* The value write_to_daily_note returns for an outcome of the POST.
WriteResult(o) == o.how = "response" /\ o.code \in {200, 201}

\* ------------------------------------------------------------------ state

VARIABLES
  env,          \* which settings the environment provides
  phase,        \* "boot", "failed" (startup raised), "connected", "ready"
  now,          \* the wall clock, datetime.now()
  waiting_for,  \* conversation_state['waiting_for']: "none" is None
  armed_at,     \* conversation_state['last_check_in_time']: 0 is None
  h,            \* the on_message tasks in flight, by slot
  job,          \* the position of each scheduled job
  outstanding,  \* history: the kind last armed and not yet replied to
  call          \* a call of a function taken alone: its arguments, its result

bot == <<env, phase, now, waiting_for, armed_at, h, job, outstanding>>

vars == <<env, phase, now, waiting_for, armed_at, h, job, outstanding, call>>

\* No function is being called on its own.
NoCall == [fn |-> "none"]

Slots == 1..MaxHandlers

\* datetime.now().strftime('%I:%M %p')
TimeStamp(t) == ToString(t)

\* A slot no on_message task has used yet.
Idle ==
  [pc |-> "idle", branch |-> "none", text |-> <<>>, kind |-> "none",
   label |-> "none", outcome |-> "none", entry |-> <<>>, posts |-> 0,
   sends |-> <<>>]

\* A slot whose task has ended: on_message returned ("returned"), or an
\* exception left it for the client's error hook ("raised").
Over(how) == [Idle EXCEPT !.pc = how]

\* The positions of a task that has ended or never ran.
Free == {"idle", "returned", "raised"}

\* ----------------------------------------------------------- state.py

\* set_waiting_for_checkin keeping a kind that is already waited for.
SetWaitingFirstWins(check_in_type) ==
  /\ waiting_for' = IF waiting_for = "none" THEN check_in_type ELSE waiting_for
  /\ armed_at' = now

\* set_waiting_for_checkin
SetWaitingForCheckin(check_in_type) ==
  /\ waiting_for' = check_in_type
  /\ armed_at' = now

\* clear_waiting_state forgetting the time of the last arm as well.
ClearWaitingStateAndTime ==
  /\ waiting_for' = "none"
  /\ armed_at' = 0

\* clear_waiting_state
ClearWaitingState ==
  /\ waiting_for' = "none"
  /\ UNCHANGED armed_at

\* get_waiting_state
GetWaitingState == waiting_for

\* ------------------------------------------------------------- startup

\* The process before main.py is imported, for some environment.
Boot ==
  /\ env \in [token : BOOLEAN, user_id : BOOLEAN, craft_url : BOOLEAN]
  /\ phase = "boot"
  /\ now = 1
  /\ waiting_for = "none"
  /\ armed_at = 0
  /\ h = [i \in Slots |-> Idle]
  /\ job = [k \in Kinds |-> "idle"]
  /\ outstanding = "none"

Init ==
  /\ Boot
  /\ call = NoCall

\* Importing main.py and scheduler.py: both raise ValueError when a setting
\* they require is missing; otherwise main() creates the client and runs it.
Startup ==
  /\ phase = "boot"
  /\ phase' = IF env.token /\ env.user_id THEN "connected" ELSE "failed"
  /\ UNCHANGED <<env, now, waiting_for, armed_at, h, job, outstanding, call>>

\* on_ready: start the scheduler with its two cron jobs.
OnReady ==
  /\ phase = "connected"
  /\ phase' = "ready"
  /\ UNCHANGED <<env, now, waiting_for, armed_at, h, job, outstanding, call>>

\* Tick with a prompt that expires once time has passed since it was armed.
TickExpires ==
  /\ phase \in {"connected", "ready"}
  /\ now < MaxClock
  /\ now' = now + 1
  /\ waiting_for' = IF armed_at < now' THEN "none" ELSE waiting_for
  /\ UNCHANGED <<env, phase, armed_at, h, job, outstanding, call>>

\* Time passes.
Tick ==
  /\ phase \in {"connected", "ready"}
  /\ now < MaxClock
  /\ now' = now + 1
  /\ UNCHANGED <<env, phase, waiting_for, armed_at, h, job, outstanding, call>>

\* ---------------------------------------------------------- scheduler.py

\* What fetch_user can end in: the user, None, or an exception.
FetchOutcomes == {"user", "none", "raised"}

\* What user.send can end in: it returns, or raises discord.Forbidden,
\* discord.HTTPException or another exception.
SendOutcomes == {"ok", "forbidden", "http_error", "error"}

\* What message.channel.send can end in for a handler of main.py, which
\* does not tell exceptions apart.
ChatOutcomes == {"ok", "raised"}

\* The cron trigger of job k fires: the job runs up to "await fetch_user".
\* APScheduler runs at most one instance of a job at a time.
Fire(k) ==
  /\ phase = "ready"
  /\ job[k] = "idle"
  /\ job' = [job EXCEPT ![k] = "fetch_user"]
  /\ UNCHANGED <<env, phase, now, waiting_for, armed_at, h, outstanding, call>>

\* fetch_user returns or raises: with a user the job goes on to
\* "await user.send(message)"; otherwise it logs and ends.
FetchDone(k, r) ==
  /\ job[k] = "fetch_user"
  /\ job' = [job EXCEPT ![k] = IF r = "user" THEN "send" ELSE "idle"]
  /\ UNCHANGED <<env, phase, now, waiting_for, armed_at, h, outstanding, call>>

\* AfterPromptSend arming whatever the send ended in.
AfterPromptSendAlways(k, r) ==
  /\ SetWaitingForCheckin(k)
  /\ outstanding' = k

\* What the job does once user.send has returned or raised: arm on a
\* confirmed send, only log on Forbidden, HTTPException or any other error.
AfterPromptSend(k, r) ==
  IF r = "ok"
  THEN /\ SetWaitingForCheckin(k)
       /\ outstanding' = k
  ELSE UNCHANGED <<waiting_for, armed_at, outstanding>>

\* user.send returns or raises, and the job ends.
PromptSendDone(k, r) ==
  /\ job[k] = "send"
  /\ AfterPromptSend(k, r)
  /\ job' = [job EXCEPT ![k] = "idle"]
  /\ UNCHANGED <<env, phase, now, h, call>>

\* send_morning_checkin
SendMorningCheckin ==
  \/ Fire("morning")
  \/ \E r \in FetchOutcomes : FetchDone("morning", r)
  \/ \E r \in SendOutcomes : PromptSendDone("morning", r)

\* send_evening_checkin
SendEveningCheckin ==
  \/ Fire("evening")
  \/ \E r \in FetchOutcomes : FetchDone("evening", r)
  \/ \E r \in SendOutcomes : PromptSendDone("evening", r)

\* -------------------------------------------------------- main.py: input

\* The message texts the chat platform delivers.
MsgTexts ==
  { CmdStatus, CmdHelp, CommandPrefix,
    <<"/","M","o","r","n","i","n","g"," ","n","o","w">>,
    <<" ","/","e","v","e","n","i","n","g","\n">>,
    <<"y","e","s">>,
    <<"t","h","x"," ","n","o">>,
    <<"H","i">> }

\* The texts of the messages that do not come from the owner in a DM.
OtherTexts == { <<"/","M","o","r","n","i","n","g"," ","n","o","w">> }

\* An inbound message event: who wrote it, on what kind of channel, its text.
Messages ==
  [author : {"owner"}, channel : {"dm"}, text : MsgTexts]
  \cup [author : {"bot", "owner", "stranger"}, channel : {"dm", "guild"},
        text : OtherTexts]

\* Accepted without the test of the channel.
AcceptedAnyChannel(m) ==
  /\ m.author # "bot"
  /\ m.author = "owner"

\* The three early returns of on_message pass: the author is not the bot
\* itself, the channel is a DMChannel, the author is DISCORD_USER_ID.
Accepted(m) ==
  /\ m.author # "bot"
  /\ m.channel = "dm"
  /\ m.author = "owner"

\* The slot a new on_message task takes: the lowest one not in use.
FreeSlot(i) ==
  /\ h[i].pc \in Free
  /\ \A j \in Slots : h[j].pc \in Free => i <= j

\* A task suspended in "await message.channel.send(...)": text is the
\* message.content the task was started with, kept until its first await
\* is over.
Sending(branch, text, kind, label, outcome, posts) ==
  [pc |-> "send", branch |-> branch, text |-> text, kind |-> kind,
   label |-> label, outcome |-> outcome, entry |-> <<>>, posts |-> posts,
   sends |-> <<>>]

\* ------------------------------------------------- main.py: handle_command

\* CommandLabel answering an unknown command with the help text.
CommandLabelHelpDefault(command) ==
  IF command = CmdMorning THEN "morning_prompt"
  ELSE IF command = CmdEvening THEN "evening_prompt"
  ELSE IF command = CmdStatus THEN "status"
  ELSE "help"

\* The canned message handle_command sends for a command word.
CommandLabel(command) ==
  IF command = CmdMorning THEN "morning_prompt"
  ELSE IF command = CmdEvening THEN "evening_prompt"
  ELSE IF command = CmdStatus THEN "status"
  ELSE IF command = CmdHelp THEN "help"
  ELSE "unknown"

\* What handle_command does to the conversation state before its send.
CommandArms(command) ==
  IF command = CmdMorning
  THEN /\ SetWaitingForCheckin("morning")
       /\ outstanding' = "morning"
  ELSE IF command = CmdEvening
  THEN /\ SetWaitingForCheckin("evening")
       /\ outstanding' = "evening"
  ELSE UNCHANGED <<waiting_for, armed_at, outstanding>>

\* handle_command, up to its "await message.channel.send(...)".  The task
\* keeps check_in_type, which on_message read before the dispatch.
HandleCommand(i, m, content, check_in_type) ==
  LET command == FirstWord(Lower(content))
  IN  /\ CommandArms(command)
      /\ h' = [h EXCEPT ![i] = Sending("command", m.text, check_in_type,
                                       CommandLabel(command), "none", 0)]

\* ---------------------------------------- main.py: process_checkin_response

\* process_checkin_response, up to its first await that suspends.  Without
\* CRAFT_API_URL write_to_daily_note returns False at once, and the handler
\* goes on to send the degraded notice; with it the reply is formatted and
\* the handler is suspended in the POST.
ProcessCheckinResponse(i, m, check_in_type) ==
  /\ IF env.craft_url
     THEN h' = [h EXCEPT ![i] =
                  [pc |-> "post", branch |-> "reply", text |-> m.text,
                   kind |-> check_in_type, label |-> "none",
                   outcome |-> "none",
                   entry |-> FormatCheckInContent(m.text, check_in_type,
                                                  TimeStamp(now)),
                   posts |-> 1, sends |-> <<>>]]
     ELSE h' = [h EXCEPT ![i] = Sending("reply", m.text, check_in_type,
                                        "degraded", "not_written", 0)]
  /\ outstanding' = "none"
  /\ UNCHANGED <<waiting_for, armed_at>>

\* PostDone without the clear_waiting_state of the success branch.
PostDoneNoClear(i, o) ==
  /\ h[i].pc = "post"
  /\ h' = [h EXCEPT ![i] =
             Sending("reply", <<>>, h[i].kind,
                     IF WriteResult(o) THEN "confirm" ELSE "degraded",
                     IF WriteResult(o) THEN "written" ELSE "not_written",
                     h[i].posts)]
  /\ UNCHANGED <<env, phase, now, waiting_for, armed_at, job, outstanding,
                 call>>

\* PostDone making a second POST when the first one did not succeed.
PostDoneRetry(i, o) ==
  /\ h[i].pc = "post"
  /\ IF WriteResult(o)
     THEN /\ ClearWaitingState
          /\ h' = [h EXCEPT ![i] = Sending("reply", <<>>, h[i].kind,
                                           "confirm", "written", h[i].posts)]
     ELSE /\ UNCHANGED <<waiting_for, armed_at>>
          /\ h' = [h EXCEPT ![i] =
                     IF h[i].posts < 2
                     THEN [h[i] EXCEPT !.posts = h[i].posts + 1]
                     ELSE Sending("reply", <<>>, h[i].kind, "degraded",
                                  "not_written", h[i].posts)]
  /\ UNCHANGED <<env, phase, now, job, outstanding, call>>

\* The POST has ended and write_to_daily_note returns: on success the state
\* is cleared and the confirmation is sent, otherwise the degraded notice.
PostDone(i, o) ==
  /\ h[i].pc = "post"
  /\ IF WriteResult(o)
     THEN /\ ClearWaitingState
          /\ h' = [h EXCEPT ![i] = Sending("reply", <<>>, h[i].kind,
                                           "confirm", "written", h[i].posts)]
     ELSE /\ UNCHANGED <<waiting_for, armed_at>>
          /\ h' = [h EXCEPT ![i] = Sending("reply", <<>>, h[i].kind,
                                           "degraded", "not_written",
                                           h[i].posts)]
  /\ UNCHANGED <<env, phase, now, job, outstanding, call>>

\* A send of process_checkin_response has returned or raised.
\*   confirmation: returned, the handler ends; raised, the except clause
\*     sends the generic error notice.
\*   degraded notice: returned, the state is cleared and the handler ends;
\*     raised, the except clause sends the generic error notice.
\*   error notice: returned, the state is cleared and the handler ends;
\*     raised, the exception leaves the handler before clear_waiting_state.
ReplySendDone(i, r) ==
  LET rec == h[i]
      sends == Append(rec.sends, <<rec.label, r>>)
  IN  /\ rec.pc = "send"
      /\ rec.branch = "reply"
      /\ IF r # "ok" /\ rec.label \in {"confirm", "degraded"}
         THEN /\ h' = [h EXCEPT ![i] = [rec EXCEPT !.label = "error",
                                                   !.sends = sends]]
              /\ UNCHANGED <<waiting_for, armed_at>>
         ELSE /\ h' = [h EXCEPT ![i] =
                        Over(IF r = "ok" THEN "returned" ELSE "raised")]
              /\ IF r = "ok" /\ rec.label \in {"degraded", "error"}
                 THEN ClearWaitingState
                 ELSE UNCHANGED <<waiting_for, armed_at>>
      /\ UNCHANGED <<env, phase, now, job, outstanding, call>>

\* ------------------------------------------- main.py: handle_casual_message

\* CasualLabel comparing the text as typed, not lower-cased.
CasualLabelAsTyped(content) ==
  IF content \in Greetings THEN "greeting"
  ELSE IF \E word \in ThanksWords : Contains(content, word) THEN "thanks"
  ELSE "default"

\* The canned reply handle_casual_message picks.
CasualLabel(content) ==
  LET content_lower == Lower(content)
  IN  IF content_lower \in Greetings THEN "greeting"
      ELSE IF \E word \in ThanksWords : Contains(content_lower, word)
      THEN "thanks"
      ELSE "default"

\* handle_casual_message, up to its "await message.channel.send(...)".
HandleCasualMessage(i, m, content) ==
  /\ h' = [h EXCEPT ![i] = Sending("casual", m.text, "none",
                                   CasualLabel(content), "none", 0)]
  /\ outstanding' = "none"
  /\ UNCHANGED <<waiting_for, armed_at>>

\* The send of a command or of a casual reply has returned or raised: the
\* handler ends either way, and an exception leaves on_message.
CannedSendDone(i, r) ==
  LET rec == h[i]
  IN  /\ rec.pc = "send"
      /\ rec.branch \in {"command", "casual"}
      /\ h' = [h EXCEPT ![i] =
                Over(IF r = "ok" THEN "returned" ELSE "raised")]
      /\ UNCHANGED <<env, phase, now, waiting_for, armed_at, job, outstanding,
                     call>>

\* ------------------------------------------------------ main.py: on_message

\* OnMessage testing the waiting state before the command prefix.
OnMessageReplyFirst(m) ==
  /\ phase \in {"connected", "ready"}
  /\ IF ~Accepted(m)
     THEN UNCHANGED <<waiting_for, armed_at, h, outstanding>>
     ELSE \E i \in Slots :
            /\ FreeSlot(i)
            /\ LET content == Strip(m.text)
                   check_in_type == GetWaitingState
               IN  IF check_in_type # "none"
                   THEN ProcessCheckinResponse(i, m, check_in_type)
                   ELSE IF StartsWith(content, CommandPrefix)
                   THEN HandleCommand(i, m, content, check_in_type)
                   ELSE HandleCasualMessage(i, m, content)
  /\ UNCHANGED <<env, phase, now, job, call>>

\* on_message, from the event to its first await that suspends (or to its
\* return): the three filters, then the dispatch on the stripped content and
\* on the waiting state read at that moment.
OnMessage(m) ==
  /\ phase \in {"connected", "ready"}
  /\ IF ~Accepted(m)
     THEN UNCHANGED <<waiting_for, armed_at, h, outstanding>>
     ELSE \E i \in Slots :
            /\ FreeSlot(i)
            /\ LET content == Strip(m.text)
                   check_in_type == GetWaitingState
               IN  IF StartsWith(content, CommandPrefix)
                   THEN HandleCommand(i, m, content, check_in_type)
                   ELSE IF check_in_type # "none"
                   THEN ProcessCheckinResponse(i, m, check_in_type)
                   ELSE HandleCasualMessage(i, m, content)
  /\ UNCHANGED <<env, phase, now, job, call>>

\* ------------------------------------------------------------ the system

Next ==
  \/ Startup
  \/ OnReady
  \/ Tick
  \/ SendMorningCheckin
  \/ SendEveningCheckin
  \/ \E m \in Messages : OnMessage(m)
  \/ \E i \in Slots, o \in HttpOutcomes : PostDone(i, o)
  \/ \E i \in Slots, r \in ChatOutcomes : ReplySendDone(i, r)
  \/ \E i \in Slots, r \in ChatOutcomes : CannedSendDone(i, r)

Spec == Init /\ [][Next]_vars

\* ------------------------------------------- the formatter taken alone

\* The fragments the reply texts given to the formatter are made of.
Frags ==
  { KwYes, <<"Y","E","S">>, KwNo, <<"N","o">>, KwPartial,
    <<"P","a","r","t","i","a","l">>, <<" ">>, <<"y","e">>, <<"s">>,
    <<"n">>, <<"o">>, <<"x">> }

RECURSIVE TextsOf(_)
\* The concatenations of at most n fragments.
TextsOf(n) ==
  IF n = 0 THEN {<<>>}
  ELSE TextsOf(n - 1) \cup {t \o f : t \in TextsOf(n - 1), f \in Frags}

\* The check_in_type values given to the formatter: the two kinds, and
\* values that are neither ("Morning" differs from "morning" by its case).
FormatKinds == {"morning", "evening", "weekly", "Morning", ""}

\* The time stamps given to the formatter.
FormatStamps == {"07:00 AM", "05:30 PM"}

InitFormat ==
  /\ Boot
  /\ env = [token |-> TRUE, user_id |-> TRUE, craft_url |-> TRUE]
  /\ call \in [fn : {"format_check_in_content"}, content : TextsOf(MaxFrags),
                check_in_type : FormatKinds, timestamp : FormatStamps,
                done : {FALSE}, result : {<<>>}]

\* format_check_in_content is applied to the arguments.
Format ==
  /\ call.fn = "format_check_in_content"
  /\ ~call.done
  /\ call' = [call EXCEPT !.done = TRUE,
                          !.result = FormatCheckInContent(call.content,
                                       call.check_in_type, call.timestamp)]
  /\ UNCHANGED bot

NextFormat == Format

SpecFormat == InitFormat /\ [][NextFormat]_vars

\* ------------------------------------------- the publisher taken alone

\* The reply texts given to the publisher.
PublishTexts == TextsOf(1)

\* A call of write_to_daily_note, with or without CRAFT_API_URL.
InitPublish ==
  /\ Boot
  /\ env \in [token : {TRUE}, user_id : {TRUE}, craft_url : BOOLEAN]
  /\ call \in [fn : {"write_to_daily_note"}, content : PublishTexts,
                check_in_type : Kinds, pc : {"called"}, posts : {0},
                formatted_content : {<<>>},
                outcome : {[how |-> "none", code |-> 0]}, result : {FALSE}]

\* write_to_daily_note, up to "await client.post(...)": without
\* CRAFT_API_URL it returns False at once, otherwise it formats the reply
\* and makes the one POST.
WriteStart ==
  /\ call.fn = "write_to_daily_note"
  /\ call.pc = "called"
  /\ call' = IF ~env.craft_url
             THEN [call EXCEPT !.pc = "returned", !.result = FALSE]
             ELSE [call EXCEPT
                     !.pc = "post",
                     !.formatted_content =
                        FormatCheckInContent(call.content, call.check_in_type,
                                             TimeStamp(now)),
                     !.posts = call.posts + 1]
  /\ UNCHANGED bot

\* WritePostDone letting an exception that is neither a timeout nor a
\* request error leave the function.
WritePostDoneLeaky(o) ==
  /\ call.fn = "write_to_daily_note"
  /\ call.pc = "post"
  /\ call' = [call EXCEPT
               !.pc = IF o.how = "exception" THEN "raised" ELSE "returned",
               !.outcome = o,
               !.result = WriteResult(o)]
  /\ UNCHANGED bot

\* The POST ends in outcome o, and write_to_daily_note returns: True for a
\* response with status 200 or 201, False for any other response and from
\* each of the three except clauses.
WritePostDone(o) ==
  /\ call.fn = "write_to_daily_note"
  /\ call.pc = "post"
  /\ call' = [call EXCEPT !.pc = "returned", !.outcome = o,
                          !.result = WriteResult(o)]
  /\ UNCHANGED bot

NextPublish ==
  \/ WriteStart
  \/ \E o \in HttpOutcomes : WritePostDone(o)

SpecPublish == InitPublish /\ [][NextPublish]_vars

\* ------------------------------------- the next-check-in query alone

\* The hour and minute of the two daily check-ins.
MorningHour == 7

MorningMinute == 0

EveningHour == 17

EveningMinute == 30

\* Local time is counted in half-minutes from today's midnight: an even
\* instant is exactly on a minute (second 0, microsecond 0), an odd one is
\* later within that minute.
TicksPerDay == 24 * 60 * 2

\* now.replace(hour=..., minute=..., second=0, microsecond=0), for today.
TodayAt(hour, minute) == (hour * 60 + minute) * 2

\* GetNextCheckinTime rolling a slot to tomorrow once now has reached it.
GetNextCheckinTimeRollAtSlot(t) ==
  LET morning0 == TodayAt(MorningHour, MorningMinute)
      morning == IF t >= morning0 THEN morning0 + TicksPerDay ELSE morning0
      evening0 == TodayAt(EveningHour, EveningMinute)
      evening == IF t >= evening0 THEN evening0 + TicksPerDay ELSE evening0
  IN  IF morning < evening
      THEN [check_type |-> "Morning routine", next_time |-> morning]
      ELSE [check_type |-> "Exercise", next_time |-> evening]

\* get_next_checkin_time at local time t: the check-in type it names and
\* the instant it formats.
GetNextCheckinTime(t) ==
  LET morning0 == TodayAt(MorningHour, MorningMinute)
      morning == IF t > morning0 THEN morning0 + TicksPerDay ELSE morning0
      evening0 == TodayAt(EveningHour, EveningMinute)
      evening == IF t > evening0 THEN evening0 + TicksPerDay ELSE evening0
  IN  IF morning < evening
      THEN [check_type |-> "Morning routine", next_time |-> morning]
      ELSE [check_type |-> "Exercise", next_time |-> evening]

\* A call of get_next_checkin_time at some local time of the day.
InitQuery ==
  /\ Boot
  /\ env = [token |-> TRUE, user_id |-> TRUE, craft_url |-> TRUE]
  /\ call \in [fn : {"get_next_checkin_time"}, t : 0..(TicksPerDay - 1),
                done : {FALSE},
                result : {[check_type |-> "", next_time |-> 0]}]

\* get_next_checkin_time is applied to the local time.
Query ==
  /\ call.fn = "get_next_checkin_time"
  /\ ~call.done
  /\ call' = [call EXCEPT !.done = TRUE,
                          !.result = GetNextCheckinTime(call.t)]
  /\ UNCHANGED bot

NextQuery == Query

SpecQuery == InitQuery /\ [][NextQuery]_vars

\* ================================================================ claims

\* ---- the conversation (under Spec)

\* The command word of a text: the first word of its stripped form, in
\* lower case.
CommandWord(text) == FirstWord(Lower(Strip(text)))

\* The text is a command: its stripped form starts with the prefix.
IsCommand(text) == StartsWith(Strip(text), CommandPrefix)

\* The task in slot i ends in this step.
Ended(i) == h[i].pc \in {"post", "send"} /\ h'[i].pc \in {"returned", "raised"}

\* The task in slot i is started by this step, by the message of the
\* authorized user whose text is h'[i].text.
Started(i) == h[i].pc \in Free /\ h'[i].pc \in {"post", "send"}

\* The messages that are not from the authorized user, or not on the
\* private channel, or from the bot itself; written {x : x \in S} so that
\* the set is enumerated once instead of being filtered anew at every step.
Unauthorized ==
  {x : x \in {m \in Messages :
                m.author # "owner" \/ m.channel # "dm" \/ m.author = "bot"}}

\* C1 as stated, for the handlers none of whose chat sends failed: the
\* handler of a reply ends with waiting_for = NONE and with exactly one
\* outbound message, the confirmation when the publish succeeded and the
\* degraded notice when it reported failure.
C1_AsStated ==
  [][\A i \in Slots :
       ( /\ h[i].branch = "reply"
         /\ Ended(i)
         /\ h[i].sends = <<>> /\ h'[i].pc = "returned" ) =>
         /\ waiting_for' = "none"
         /\ h[i].label =
              (IF h[i].outcome = "written" THEN "confirm" ELSE "degraded")]_vars

\* C1 amended: when the publish succeeds the handler sets waiting_for to
\* NONE and goes on to send the confirmation, and when that send returns the
\* handler ends with the confirmation as its only outbound message and
\* without writing the state again; when the publish reports failure the
\* handler goes on to send the degraded notice, and when that send returns
\* the handler ends with waiting_for = NONE and the degraded notice as its
\* only outbound message.
C1_Amended ==
  [][\A i \in Slots :
       /\ (h[i].pc = "post" /\ h'[i].outcome = "written") =>
            /\ waiting_for' = "none"
            /\ h'[i].pc = "send" /\ h'[i].label = "confirm"
            /\ h'[i].sends = <<>>
       /\ (h[i].pc = "post" /\ h'[i].outcome = "not_written") =>
            /\ h'[i].pc = "send" /\ h'[i].label = "degraded"
            /\ h'[i].sends = <<>>
       /\ (h[i].branch = "reply" /\ h[i].label = "confirm" /\ Ended(i)) =>
            /\ h[i].outcome = "written"
            /\ h[i].sends = <<>>
            /\ h'[i].pc = "returned"
            /\ UNCHANGED <<waiting_for, armed_at>>
       /\ (h[i].branch = "reply" /\ h[i].label = "degraded" /\ Ended(i)) =>
            /\ h[i].outcome = "not_written"
            /\ h[i].sends = <<>>
            /\ h'[i].pc = "returned"
            /\ waiting_for' = "none"]_vars

\* C1 witness: the publish of a morning reply has succeeded, the state is
\* cleared and the confirmation, the first outbound message, is being sent.
C1_Witness ==
  \E i \in Slots :
    /\ h[i].pc = "send" /\ h[i].branch = "reply" /\ h[i].kind = "morning"
    /\ h[i].label = "confirm" /\ h[i].outcome = "written"
    /\ h[i].sends = <<>>
    /\ waiting_for = "none"

\* C2: every execution of reply processing disarms, on every path: when the
\* publish succeeds the state is NONE once the publish has returned, and on
\* every other path (publish failure, a failing send of the degraded notice
\* or of the generic error notice) the handler ends with waiting_for = NONE.
C2_AlwaysDisarms ==
  [][\A i \in Slots :
       /\ (h[i].pc = "post" /\ h'[i].outcome = "written") =>
            waiting_for' = "none"
       /\ (h[i].branch = "reply" /\ h[i].outcome # "written" /\ Ended(i)) =>
            waiting_for' = "none"]_vars

\* C3: while a prompt is armed and no reply to it has been received, the
\* next authorized non-command DM is handled as the reply to that prompt,
\* under its kind; and the handler of an earlier reply, when its publish
\* returns, does not disarm a prompt armed in the meantime.
C3_NextDmIsTheReply ==
  [][/\ \A i \in Slots :
          ( /\ Started(i)
            /\ outstanding # "none"
            /\ ~IsCommand(h'[i].text) ) =>
            /\ h'[i].branch = "reply"
            /\ h'[i].kind = outstanding
     /\ \A i \in Slots :
          (h[i].pc = "post" /\ h'[i].pc # "post" /\ outstanding # "none") =>
            waiting_for' = outstanding]_vars

\* C4: a message that is not from the authorized user, or not on the private
\* channel, or from the bot itself, starts no handler (so no outbound
\* message and no publish) and leaves waiting_for and armed_at unchanged.
C4_RejectedIsInert ==
  [][\A m \in Unauthorized :
       OnMessage(m) => UNCHANGED <<waiting_for, armed_at, h, outstanding>>]_vars

\* C4 witness: a state in which the filters matter: the evening prompt was
\* armed at an earlier time, a handler slot is free, and the messages the
\* filters drop include /morning, which would re-arm if it were handled.
C4_Witness ==
  /\ phase = "ready"
  /\ waiting_for = "evening" /\ armed_at = 1 /\ now = 2
  /\ \E i \in Slots : FreeSlot(i)
  /\ \E m \in Unauthorized : CommandWord(m.text) = CmdMorning

\* C5: a scheduled firing arms the state with its kind exactly when its
\* prompt was sent: a firing that ends because the user cannot be fetched or
\* because the send raised leaves waiting_for and armed_at as they are, a
\* firing whose send returned sets waiting_for to its kind and armed_at to
\* the time, and in every case the job ends (nothing is raised).
C5_ArmOnlyOnConfirmedSend ==
  [][\A k \in Kinds :
       /\ Fire(k) => UNCHANGED <<waiting_for, armed_at>>
       /\ \A r \in FetchOutcomes :
            FetchDone(k, r) =>
              /\ UNCHANGED <<waiting_for, armed_at>>
              /\ job'[k] = (IF r = "user" THEN "send" ELSE "idle")
       /\ \A r \in SendOutcomes :
            PromptSendDone(k, r) =>
              /\ job'[k] = "idle"
              /\ IF r = "ok"
                 THEN waiting_for' = k /\ armed_at' = now
                 ELSE UNCHANGED <<waiting_for, armed_at>>]_vars

\* C5 witness: the morning job is in its send while the state holds the
\* evening prompt armed earlier: a failed send must keep it, a confirmed
\* one overwrites it.
C5_Witness ==
  /\ job["morning"] = "send"
  /\ waiting_for = "evening" /\ armed_at = 1 /\ now = 2

\* C6: a message of the authorized user whose text starts with the command
\* prefix, handled while a prompt is armed, is handled as a command: no
\* publish is attempted, the state stays armed, and unless the command is
\* /morning or /evening waiting_for and armed_at are unchanged; the rest of
\* the command's handler writes nothing either.
C6_CommandShortCircuits ==
  [][/\ \A i \in Slots :
          ( /\ Started(i)
            /\ waiting_for # "none"
            /\ StartsWith(h'[i].text, CommandPrefix) ) =>
            /\ h'[i].branch = "command" /\ h'[i].pc = "send"
            /\ h'[i].posts = 0
            /\ waiting_for' # "none"
            /\ CommandWord(h'[i].text) \notin {CmdMorning, CmdEvening} =>
                 UNCHANGED <<waiting_for, armed_at>>
     /\ \A i \in Slots :
          (h[i].branch = "command" /\ h'[i] # h[i]) =>
            /\ Ended(i)
            /\ UNCHANGED <<waiting_for, armed_at>>]_vars

\* C6 witness: /help is being answered while the morning prompt, armed
\* before the command came in, is still armed and unanswered.
C6_Witness ==
  \E i \in Slots :
    /\ h[i].pc = "send" /\ h[i].branch = "command" /\ h[i].label = "help"
    /\ h[i].kind = "morning"
    /\ waiting_for = "morning" /\ outstanding = "morning"

\* The command word of the manual trigger of kind k.
TriggerWord(k) == IF k = "morning" THEN CmdMorning ELSE CmdEvening

\* A step that arms kind k: the scheduled prompt of k is confirmed sent, or
\* the handling of the manual trigger of k starts.
ArmStep(k) ==
  \/ PromptSendDone(k, "ok")
  \/ \E i \in Slots :
       Started(i) /\ CommandWord(h'[i].text) = TriggerWord(k)

\* A step that disarms: a publish returns success, or the degraded notice or
\* the error notice of a reply has been sent.
DisarmStep ==
  \E i \in Slots :
    \/ \E o \in HttpOutcomes : WriteResult(o) /\ PostDone(i, o)
    \/ h[i].label \in {"degraded", "error"} /\ ReplySendDone(i, "ok")

\* C7: the conversation state is one slot, the last writer wins: after a
\* step that arms k, whatever was armed before, peek returns k; after a step
\* that disarms, peek returns NONE; and no other step changes what peek
\* returns.
C7_SingleSlotLastWriterWins ==
  [][/\ \A k \in Kinds : ArmStep(k) => GetWaitingState' = k
     /\ DisarmStep => GetWaitingState' = "none"
     /\ (~DisarmStep /\ \A k \in Kinds : ~ArmStep(k)) =>
          GetWaitingState' = GetWaitingState]_vars

\* C7 witness: the handler of /morning, which armed MORNING when nothing was
\* armed, is still sending its prompt, and peek returns EVENING: a later arm
\* has overwritten the first.
C7_Witness ==
  \E i \in Slots :
    /\ h[i].pc = "send" /\ h[i].label = "morning_prompt"
    /\ h[i].kind = "none"
    /\ GetWaitingState = "evening" /\ outstanding = "evening"

\* The canned message C8 names for a command word.
C8_Canned(word) ==
  CASE word = CmdMorning -> "morning_prompt"
    [] word = CmdEvening -> "evening_prompt"
    [] word = CmdStatus -> "status"
    [] word = CmdHelp -> "help"
    [] OTHER -> "unknown"

\* C8: every command of the authorized user (a text whose stripped form
\* starts with the prefix; its command word is its first word in lower case)
\* starts a handler that sends the canned message of that command and no
\* other message: /morning arms MORNING, /evening arms EVENING, any word
\* other than the four commands, the bare prefix included, gets the
\* unknown-command response; once that one send is over the handler ends.
C8_OneCannedMessage ==
  [][/\ \A i \in Slots :
          (Started(i) /\ IsCommand(h'[i].text)) =>
            /\ h'[i].branch = "command" /\ h'[i].pc = "send"
            /\ h'[i].label = C8_Canned(CommandWord(h'[i].text))
            /\ h'[i].sends = <<>>
            /\ CommandWord(h'[i].text) = CmdMorning =>
                 waiting_for' = "morning"
            /\ CommandWord(h'[i].text) = CmdEvening =>
                 waiting_for' = "evening"
     /\ \A i \in Slots :
          (h[i].branch = "command" /\ h'[i] # h[i]) => Ended(i)]_vars

\* C8 witness: the bare prefix is being answered with the unknown-command
\* response while /evening, which armed EVENING, is being answered too.
C8_Witness ==
  \E i, j \in Slots :
    /\ h[i].pc = "send" /\ h[i].branch = "command" /\ h[i].label = "unknown"
    /\ h[j].pc = "send" /\ h[j].label = "evening_prompt"
    /\ waiting_for = "evening"

\* C9: a prompt whose send fails changes nothing and raises nothing: after
\* the failed send of a scheduled prompt waiting_for is what it was, and
\* after the failed send of the prompt of /morning or /evening waiting_for
\* is what it was when the command came in (check_in_type) and on_message
\* has returned.
C9_FailedPromptChangesNothing ==
  [][/\ \A k \in Kinds : \A r \in SendOutcomes \ {"ok"} :
          PromptSendDone(k, r) => waiting_for' = waiting_for
     /\ \A i \in Slots :
          ( /\ h[i].branch = "command"
            /\ h[i].label \in {"morning_prompt", "evening_prompt"}
            /\ CannedSendDone(i, "raised") ) =>
            /\ waiting_for' = h[i].kind
            /\ h'[i].pc = "returned"]_vars

\* C16: when a required setting (the bot credential, the recipient
\* identifier or the note-store base URL) is missing, the process does not
\* start: the scheduler is never started and no message is ever handled.
C16_MissingSettingIsFatal ==
  (~env.token \/ ~env.user_id \/ ~env.craft_url) =>
    /\ phase # "ready"
    /\ \A i \in Slots : h[i].pc = "idle"
    /\ \A k \in Kinds : job[k] = "idle"

\* C17: there is no cancellation.  While a prompt is armed, the start of a
\* command's handler does not disarm; a step that starts or moves no
\* handler and ends no successful prompt send (a rejected message, time
\* passing, a firing that starts or fails) leaves waiting_for as it is;
\* waiting_for becomes NONE only in a step of the handler of a reply; and
\* it changes to another kind only in a step that arms that kind.
C17_NoCancellation ==
  [][waiting_for # "none" =>
       /\ \A i \in Slots :
            (Started(i) /\ h'[i].branch = "command") => waiting_for' # "none"
       /\ Tick => waiting_for' = waiting_for
       /\ \A k \in Kinds :
            /\ Fire(k) => waiting_for' = waiting_for
            /\ \A r \in FetchOutcomes :
                 FetchDone(k, r) => waiting_for' = waiting_for
            /\ \A r \in SendOutcomes \ {"ok"} :
                 PromptSendDone(k, r) => waiting_for' = waiting_for
       /\ (h' = h /\ job' = job) => waiting_for' = waiting_for
       /\ waiting_for' = "none" =>
            \E i \in Slots : h[i].branch = "reply" /\ h'[i] # h[i]
       /\ waiting_for' \notin {"none", waiting_for} =>
            ArmStep(waiting_for')]_vars

\* C17 witness: the morning prompt armed at an earlier time is still armed
\* and unanswered while /status, received after it, is being answered.
C17_Witness ==
  /\ waiting_for = "morning" /\ outstanding = "morning"
  /\ armed_at = 1 /\ now = 2
  /\ \E i \in Slots :
       /\ h[i].pc = "send" /\ h[i].label = "status"
       /\ h[i].kind = "morning"

\* C18: one armed prompt leads to at most one publish: a non-command
\* message dispatched after the reply to the prompt was received, while
\* the handler of that reply is still awaiting its POST and no prompt was
\* armed since, is not handled as a reply and makes no publish attempt.
C18_OnePublishPerArm ==
  [][\A i \in Slots :
       ( /\ Started(i)
         /\ outstanding = "none"
         /\ \E j \in Slots : h[j].pc = "post" ) =>
         /\ h'[i].branch # "reply"
         /\ h'[i].posts = 0]_vars

\* C19: each reply causes at most one publish attempt: a handler enters
\* the POST only when it starts, leaves it for a chat send whatever the
\* POST ended in, and has made one attempt at most at every moment.
C19_AtMostOnePost ==
  [][\A i \in Slots :
       /\ h'[i].posts <= 1
       /\ (h'[i].pc = "post" /\ h'[i] # h[i]) =>
            Started(i) /\ h'[i].posts = 1
       /\ (h[i].pc = "post" /\ h'[i] # h[i]) =>
            h'[i].pc = "send" /\ h'[i].posts = 1
       /\ (h[i].pc = "send" /\ h'[i].pc = "send") =>
            h'[i].posts = h[i].posts]_vars

\* C19 witness: the POST of a reply failed, the send of the degraded notice
\* raised, the error notice is being sent, and one attempt was made.
C19_Witness ==
  \E i \in Slots :
    /\ h[i].pc = "send" /\ h[i].branch = "reply" /\ h[i].label = "error"
    /\ h[i].outcome = "not_written"
    /\ h[i].posts = 1

\* The canned reply C20 names for a text: the greeting when the lower-cased
\* stripped text is a greeting word, the thanks when it contains a word of
\* thanks, the default otherwise.
C20_Canned(text) ==
  LET t == Lower(Strip(text))
  IN  CASE t \in Greetings -> "greeting"
        [] t \notin Greetings /\ \E w \in ThanksWords : Contains(t, w)
             -> "thanks"
        [] OTHER -> "default"

\* C20: a non-command message of the authorized user handled while
\* waiting_for = NONE takes the casual branch: one canned reply (greeting,
\* thanks or default) is sent, no publish attempt is made, waiting_for
\* stays NONE, and the handler ends after that one send without writing
\* the state.
C20_CasualOnly ==
  [][\A i \in Slots :
       /\ ( /\ Started(i)
            /\ waiting_for = "none"
            /\ ~IsCommand(h'[i].text) ) =>
            /\ h'[i].branch = "casual" /\ h'[i].pc = "send"
            /\ h'[i].label = C20_Canned(h'[i].text)
            /\ h'[i].sends = <<>> /\ h'[i].posts = 0
            /\ waiting_for' = "none"
       /\ (h[i].branch = "casual" /\ h'[i] # h[i]) =>
            /\ Ended(i)
            /\ UNCHANGED <<waiting_for, armed_at>>]_vars

\* C20 witness: "thx no", which holds a status keyword, is being answered
\* with the thanks reply while nothing is armed; nothing was published.
C20_Witness ==
  \E i \in Slots :
    /\ h[i].pc = "send" /\ h[i].branch = "casual" /\ h[i].label = "thanks"
    /\ Contains(Lower(h[i].text), KwNo)
    /\ h[i].posts = 0
    /\ waiting_for = "none"

\* C21: armed_at is written by every arm and by nothing else.  A step that
\* arms sets it to the time of the step; it changes in no other step, a
\* disarming step included; so it is present whenever waiting_for is not
\* NONE, and once present it is never absent again: it is absent only
\* while no arm has happened since the process started.
C21_ArmedAtWrittenByArmOnly ==
  [][/\ (\E k \in Kinds : ArmStep(k)) => armed_at' = now /\ armed_at' # 0
     /\ armed_at' # armed_at => \E k \in Kinds : ArmStep(k)
     /\ DisarmStep => armed_at' = armed_at
     /\ waiting_for' # "none" => armed_at' # 0
     /\ armed_at # 0 => armed_at' # 0]_vars

\* C21 witness: the reply to a prompt armed at an earlier time has been
\* published and the state disarmed, and armed_at still holds that time.
C21_Witness ==
  /\ waiting_for = "none"
  /\ armed_at = 1 /\ now = 2
  /\ \E i \in Slots :
       /\ h[i].pc = "send" /\ h[i].branch = "reply"
       /\ h[i].label = "confirm" /\ h[i].outcome = "written"

\* ---- the formatter (under SpecFormat)

\* A finished call of format_check_in_content for the given kind.
Formatted(kind) ==
  /\ call.fn = "format_check_in_content"
  /\ call.done
  /\ call.check_in_type = kind

\* Whether the lower-cased reply of the call contains the keyword.
Has(kw) == Contains(Lower(call.content), kw)

\* The status the formatted result shows under the given status title: the
\* element after the title, which follows the three heading elements; ""
\* when the result has no such line.
ShownStatus(title) ==
  IF Len(call.result) >= 5 /\ call.result[4] = title
  THEN call.result[5]
  ELSE ""

\* C10: for a morning reply the status shown is decided by the presence of
\* yes, no and partial in the lower-cased text alone: yes without no gives
\* Yes; otherwise partial gives Partial; otherwise no gives No; otherwise no
\* status line.  So yes with no and without partial gives No, and partial
\* with no gives Partial.
C10_MorningStatus ==
  Formatted("morning") =>
    LET shown == ShownStatus("**Routine completion:** ")
    IN  /\ (Has(KwYes) /\ ~Has(KwNo)) => shown = "Yes"
        /\ (~(Has(KwYes) /\ ~Has(KwNo)) /\ Has(KwPartial)) => shown = "Partial"
        /\ (~(Has(KwYes) /\ ~Has(KwNo)) /\ ~Has(KwPartial) /\ Has(KwNo))
             => shown = "No"
        /\ (~Has(KwYes) /\ ~Has(KwPartial) /\ ~Has(KwNo)) => shown = ""
        /\ (Has(KwYes) /\ Has(KwNo) /\ ~Has(KwPartial)) => shown = "No"
        /\ (Has(KwPartial) /\ Has(KwNo)) => shown = "Partial"

\* C10 witness: a morning reply with yes and no and without partial has been
\* formatted, and its status line says No.
C10_Witness ==
  /\ Formatted("morning")
  /\ Has(KwYes) /\ Has(KwNo) /\ ~Has(KwPartial)
  /\ ShownStatus("**Routine completion:** ") = "No"

\* The formatted result of the call is its heading, then a status line when
\* there is a status, then the reply unchanged.
BodyAfter(heading, title, status) ==
  call.result =
    <<heading, call.timestamp, ")\n">>
    \o (IF status # "" THEN <<title, status, "\n">> ELSE <<>>)
    \o call.content

\* C11: for an evening reply the status shown is decided by the presence of
\* yes and no in the lower-cased text alone: yes without no gives Yes;
\* otherwise no gives No; otherwise there is no status line; partial has no
\* influence; and in every case the reply follows the heading unchanged.
C11_EveningStatus ==
  Formatted("evening") =>
    LET shown == ShownStatus("**Workout:** ")
    IN  /\ (Has(KwYes) /\ ~Has(KwNo)) => shown = "Yes"
        /\ (~(Has(KwYes) /\ ~Has(KwNo)) /\ Has(KwNo)) => shown = "No"
        /\ (~Has(KwYes) /\ ~Has(KwNo)) => shown = ""
        /\ shown \in {"Yes", "No", ""}
        /\ BodyAfter("## Exercise Check-in (", "**Workout:** ", shown)

\* C11 witness: an evening reply with partial and without yes and no has
\* been formatted: no status line, and the reply follows the heading.
C11_Witness ==
  /\ Formatted("evening")
  /\ Has(KwPartial) /\ ~Has(KwYes) /\ ~Has(KwNo)
  /\ ShownStatus("**Workout:** ") = ""
  /\ BodyAfter("## Exercise Check-in (", "**Workout:** ", "")

\* C12: for every kind value other than morning and evening the call ends
\* and its result is the text it was given, unchanged.
C12_OtherKindPassthrough ==
  ( /\ call.fn = "format_check_in_content"
    /\ call.check_in_type \notin Kinds ) =>
    /\ ENABLED Format \/ call.done
    /\ call.done => call.result = call.content

\* C12 witness: a reply holding keywords has been formatted under "Morning",
\* which is not the kind "morning", and came back unchanged.
C12_Witness ==
  /\ Formatted("Morning")
  /\ Has(KwYes) /\ Has(KwPartial)
  /\ call.result = call.content

\* ---- the publisher (under SpecPublish)

\* A call of write_to_daily_note that made its POST and is over.
Published ==
  /\ call.fn = "write_to_daily_note"
  /\ call.pc \in {"returned", "raised"}
  /\ call.posts = 1

\* C13: publish reports success for every response whose status is a 2xx
\* code, and failure for every other status, for a timeout and for a
\* transport error.
C13_Any2xxSucceeds ==
  Published =>
    ( call.result <=>
        /\ call.outcome.how = "response"
        /\ call.outcome.code >= 200 /\ call.outcome.code <= 299 )

\* C14: publish never raises: it always returns, and it returns False when
\* the base URL is missing (without a POST), when the status is no success,
\* on a timeout, on a transport error and on any other exception.
C14_PublishNeverRaises ==
  call.fn = "write_to_daily_note" =>
    /\ call.pc \in {"called", "post", "returned"}
    /\ call.pc \in {"called", "post"} => ENABLED NextPublish
    /\ (call.pc = "returned" /\ ~env.craft_url) =>
         call.result = FALSE /\ call.posts = 0
    /\ ( /\ Published
         /\ \/ call.outcome.how \in {"timeout", "request_error", "exception"}
            \/ call.outcome.code \notin {200, 201} ) =>
         call.result = FALSE

\* C14 witness: the POST raised an exception that is neither a timeout nor
\* a request error, and write_to_daily_note has returned False.
C14_Witness ==
  /\ Published
  /\ call.pc = "returned"
  /\ call.outcome.how = "exception"
  /\ call.result = FALSE

\* ---- the next-check-in query (under SpecQuery)

\* The firing instants of today and tomorrow, with their check-in types.
Firings ==
  { [check_type |-> "Morning routine",
     next_time |-> TodayAt(MorningHour, MorningMinute) + d * TicksPerDay]
      : d \in {0, 1} }
  \cup
  { [check_type |-> "Exercise",
     next_time |-> TodayAt(EveningHour, EveningMinute) + d * TicksPerDay]
      : d \in {0, 1} }

\* C15: for every local time the query returns the earliest firing that is
\* not before now: until 07:00 included today's morning, after 07:00 and
\* until 17:30 included today's evening, after 17:30 tomorrow's morning.
C15_NextFiring ==
  (call.fn = "get_next_checkin_time" /\ call.done) =>
    LET M == TodayAt(MorningHour, MorningMinute)
        E == TodayAt(EveningHour, EveningMinute)
        r == call.result
    IN  /\ r \in Firings
        /\ r.next_time >= call.t
        /\ \A f \in Firings : f.next_time >= call.t =>
                                r.next_time <= f.next_time
        /\ call.t <= M =>
             r = [check_type |-> "Morning routine", next_time |-> M]
        /\ (call.t > M /\ call.t <= E) =>
             r = [check_type |-> "Exercise", next_time |-> E]
        /\ call.t > E =>
             r = [check_type |-> "Morning routine",
                  next_time |-> M + TicksPerDay]

\* C15 witness: asked at exactly 07:00, the query has named today's 07:00
\* morning check-in.
C15_Witness ==
  /\ call.fn = "get_next_checkin_time" /\ call.done
  /\ call.t = TodayAt(MorningHour, MorningMinute)
  /\ call.result = [check_type |-> "Morning routine", next_time |-> call.t]

====
